---- MODULE Spec2Model ----
(***************************************************************************)
(* Model of the /stt request handler of src/app.py: one ASyncContext per   *)
(* request, the engine stream it opens, the WAV and raw-PCM feed loops,    *)
(* and the perf_counter() instrumentation (exec_time, latency).            *)
(*                                                                         *)
(* Every await of the code is a point where other requests and the clock   *)
(* may move, so each handler is cut into steps at its awaits and at its    *)
(* clock reads.                                                            *)
(***************************************************************************)
EXTENDS Integers, Sequences, FiniteSets, TLC

\* ---------------------------------------------------------------- bounds
NumReq == 2          \* requests the server may be handling
MaxTime == 2         \* largest value the clock reaches
MaxFull == 1         \* bodies hold up to MaxFull full 512-frame chunks ...
MaxExtra == 2        \* ... plus up to MaxExtra further frames / bytes
MaxShort == 2        \* a short read returns 1..MaxShort bytes
MaxShortReads == 1   \* only the first MaxShortReads reads of a body may be short

\* ------------------------------------------------------ program constants
ReadFrames == 512    \* wav.readframes(512), request.content.read(sampwidth * 512)
RawFrameRate == 16000
RawSampWidth == 2
Int16Bytes == 2      \* itemsize of numpy.int16

Req == 1 .. NumReq

Min(a, b) == IF a < b THEN a ELSE b

\* ---------------------------------------------------------------- inputs
\* The query string either carries a format value or none at all.
QueryFormats == {"absent", "wav", "16K_PCM16", "mp3"}

Sizes == {k * ReadFrames + e : k \in 0 .. MaxFull, e \in 0 .. MaxExtra}

\* A request: its query and its body.  A WAV body has a header (valid or
\* not) declaring nchannels, sampwidth, framerate, and nframes frames of
\* data; a raw body is nbytes bytes.
WavBodies ==
    [valid : {TRUE}, nchannels : {1, 2}, sampwidth : {1, 2},
     framerate : {8000, 16000}, nframes : Sizes]
    \cup
    [valid : {FALSE}, nchannels : {1}, sampwidth : {2},
     framerate : {16000}, nframes : {0}]

DataBytes(body) == body.nframes * body.nchannels * body.sampwidth

NoBody == [valid |-> FALSE, nchannels |-> 1, sampwidth |-> 2,
           framerate |-> 16000, nframes |-> 0]

\* A raw body of n bytes, written in the same record shape (one byte per
\* "frame", no header).
RawBody(n) == [valid |-> FALSE, nchannels |-> 1, sampwidth |-> 1,
               framerate |-> 16000, nframes |-> n]

VARIABLES
    now,          \* time.perf_counter()
    pc,           \* pc[r]: where request r's handler stands
    query,        \* query[r]: the request's format parameter
    body,         \* body[r]: the request's content
    pos,          \* pos[r]: bytes of audio data consumed from request.content
    start_time,   \* handle_stt's local start_time
    ctx,          \* ctx[r]: the ASyncContext
    frames,       \* the loop's local `frames`: <<offset, length>> or <<>>
    fin_start,    \* finishStream's local start_time
    sample_time,  \* <<num_frames, framerate>>, the quotient of line 83 / 94
    total_time,   \* the total time of the log line
    outcome,      \* what the request ended with
    engCalls,     \* history: the engine calls made for r, in order
    inflight,     \* history: engine calls of r issued and not yet returned
    readLog,      \* history: non-empty chunks read from r's source
    fedLog,       \* history: chunks passed to feedAudioContent
    feedTimes,    \* history: the clock reading taken by each feed call
    marks         \* history: when the source ran out, when finishStream returned

vars == <<now, pc, query, body, pos, start_time, ctx, frames, fin_start,
          sample_time, total_time, outcome, engCalls, inflight, readLog,
          fedLog, feedTimes, marks>>

\* ------------------------------------------------------------ ASyncContext
\* __init__
NewContext == [exec_time |-> 0, num_frames |-> 0, latency |-> 0,
               last_sample_time |-> 0, stream_ctx |-> "unset"]

\* _update_exec_time as it would be if the start time were not subtracted.
UpdateExecTimeNoStart(c, start, t) == [c EXCEPT !.exec_time = @ + t]

\* _update_exec_time, reading the clock at t
UpdateExecTime(c, start, t) == [c EXCEPT !.exec_time = @ + (t - start)]

\* len(b) as it would be if the bytes were counted instead of the samples.
SampleCountBytes(nbytes) == nbytes

\* numpy.frombuffer(frames, numpy.int16): fails unless the buffer is a
\* whole number of int16 items; len(b) otherwise.
FromBufferOK(nbytes) == nbytes % Int16Bytes = 0
SampleCount(nbytes) == nbytes \div Int16Bytes

\* request.query.get('format', 'wav')
QueryGet(q) == IF q = "absent" THEN "wav" ELSE q

Fmt(r) == QueryGet(query[r])

\* aiohttp turns an HTTPException into its status and any other exception
\* into 500.
Status(o) ==
    CASE o = "ok" -> 200
      [] o = "HTTPBadRequest" -> 400
      [] o = "none" -> 0
      [] OTHER -> 500

Init ==
    /\ now = 0
    /\ pc = [r \in Req |-> "idle"]
    /\ query = [r \in Req |-> "absent"]
    /\ body = [r \in Req |-> NoBody]
    /\ pos = [r \in Req |-> 0]
    /\ start_time = [r \in Req |-> 0]
    /\ ctx = [r \in Req |-> NewContext]
    /\ frames = [r \in Req |-> <<>>]
    /\ fin_start = [r \in Req |-> 0]
    /\ sample_time = [r \in Req |-> <<>>]
    /\ total_time = [r \in Req |-> 0]
    /\ outcome = [r \in Req |-> "none"]
    /\ engCalls = [r \in Req |-> <<>>]
    /\ inflight = [r \in Req |-> 0]
    /\ readLog = [r \in Req |-> <<>>]
    /\ fedLog = [r \in Req |-> <<>>]
    /\ feedTimes = [r \in Req |-> <<>>]
    /\ marks = [r \in Req |-> [eof |-> 0, fin_ret |-> 0]]

\* The clock advances at any moment.
Tick ==
    /\ now < MaxTime
    /\ now' = now + 1
    /\ UNCHANGED <<pc, query, body, pos, start_time, ctx, frames, fin_start,
                   sample_time, total_time, outcome, engCalls, inflight,
                   readLog, fedLog, feedTimes, marks>>

\* An exception leaves the handler: the request ends with it.
Raise(r, e) ==
    /\ pc' = [pc EXCEPT ![r] = "done"]
    /\ outcome' = [outcome EXCEPT ![r] = e]

\* Start as it would be if the context were one module-level object, made
\* anew by each request, instead of a local of the handler.
StartSharedContext(r, q, b) ==
    /\ pc[r] = "idle"
    /\ pc' = [pc EXCEPT ![r] = "create"]
    /\ query' = [query EXCEPT ![r] = q]
    /\ body' = [body EXCEPT ![r] = b]
    /\ start_time' = [start_time EXCEPT ![r] = now]
    /\ ctx' = [s \in Req |-> NewContext]
    /\ UNCHANGED <<now, pos, frames, fin_start, sample_time, total_time,
                   outcome, engCalls, inflight, readLog, fedLog, feedTimes, marks>>

\* handle_stt, lines 97-100: a request arrives with query q and body b.
Start(r, q, b) ==
    /\ pc[r] = "idle"
    /\ pc' = [pc EXCEPT ![r] = "create"]
    /\ query' = [query EXCEPT ![r] = q]
    /\ body' = [body EXCEPT ![r] = b]
    /\ start_time' = [start_time EXCEPT ![r] = now]
    /\ ctx' = [ctx EXCEPT ![r] = NewContext]
    /\ UNCHANGED <<now, pos, frames, fin_start, sample_time, total_time,
                   outcome, engCalls, inflight, readLog, fedLog, feedTimes, marks>>

\* createStream, lines 53-54 up to the await.
CreateStreamCall(r) ==
    /\ pc[r] = "create"
    /\ ctx' = [ctx EXCEPT ![r].last_sample_time = now]
    /\ engCalls' = [engCalls EXCEPT ![r] = Append(@, "createStream")]
    /\ inflight' = [inflight EXCEPT ![r] = @ + 1]
    /\ pc' = [pc EXCEPT ![r] = "create_wait"]
    /\ UNCHANGED <<now, query, body, pos, start_time, frames, fin_start,
                   sample_time, total_time, outcome, readLog, fedLog,
                   feedTimes, marks>>

\* createStream, lines 54-55: the engine returned a stream.
CreateStreamReturn(r) ==
    /\ pc[r] = "create_wait"
    /\ inflight' = [inflight EXCEPT ![r] = @ - 1]
    /\ ctx' = [ctx EXCEPT ![r] =
                 UpdateExecTime([@ EXCEPT !.stream_ctx = "open"],
                                @.last_sample_time, now)]
    /\ pc' = [pc EXCEPT ![r] = "dispatch"]
    /\ UNCHANGED <<now, query, body, pos, start_time, frames, fin_start,
                   sample_time, total_time, outcome, engCalls, readLog,
                   fedLog, feedTimes, marks>>

\* createStream, line 54: the engine raised.
CreateStreamFail(r) ==
    /\ pc[r] = "create_wait"
    /\ inflight' = [inflight EXCEPT ![r] = @ - 1]
    /\ Raise(r, "EngineError")
    /\ UNCHANGED <<now, query, body, pos, start_time, ctx, frames, fin_start,
                   sample_time, total_time, engCalls, readLog, fedLog,
                   feedTimes, marks>>

\* handle_stt, lines 103-110: the branch on the format.
Dispatch(r) ==
    /\ pc[r] = "dispatch"
    /\ IF Fmt(r) = "wav"
         THEN pc' = [pc EXCEPT ![r] = "wav_open"] /\ UNCHANGED outcome
         ELSE IF Fmt(r) = "16K_PCM16"
           THEN pc' = [pc EXCEPT ![r] = "raw_read"] /\ UNCHANGED outcome
           ELSE Raise(r, "HTTPBadRequest")
    /\ UNCHANGED <<now, query, body, pos, start_time, ctx, frames, fin_start,
                   sample_time, total_time, engCalls, inflight, readLog,
                   fedLog, feedTimes, marks>>

\* ReadFail as it would be if the handler finalized the stream on its way
\* out of a failed read.
ReadFailFinalizes(r) ==
    /\ pc[r] \in {"wav_open", "wav_read", "raw_read"}
    /\ engCalls' = [engCalls EXCEPT ![r] = Append(@, "finishStream")]
    /\ ctx' = [ctx EXCEPT ![r].stream_ctx = "finished"]
    /\ Raise(r, "IOError")
    /\ UNCHANGED <<now, query, body, pos, start_time, frames, fin_start,
                   sample_time, total_time, inflight, readLog,
                   fedLog, feedTimes, marks>>

\* Reading request.content failed (the peer went away): the await raises.
ReadFail(r) ==
    /\ pc[r] \in {"wav_open", "wav_read", "raw_read"}
    /\ Raise(r, "IOError")
    /\ UNCHANGED <<now, query, body, pos, start_time, ctx, frames, fin_start,
                   sample_time, total_time, engCalls, inflight, readLog,
                   fedLog, feedTimes, marks>>

\* wave.Wave_read on entry: the header parses or wave.Error is raised.
HeaderParses(b) == b.valid

\* handle_stt_wav, lines 75-76: Wave_read reads the header; nothing in the
\* handler catches its error.
WavOpen(r) ==
    /\ pc[r] = "wav_open"
    /\ IF HeaderParses(body[r])
         THEN pc' = [pc EXCEPT ![r] = "wav_read"] /\ UNCHANGED outcome
         ELSE Raise(r, "wave.Error")
    /\ UNCHANGED <<now, query, body, pos, start_time, ctx, frames, fin_start,
                   sample_time, total_time, engCalls, inflight, readLog,
                   fedLog, feedTimes, marks>>

\* EndOfSource as it would be if a session that was fed nothing were
\* answered without being finalized.
EndOfSourceSkipsFinish(r, framerate) ==
    /\ frames' = [frames EXCEPT ![r] = <<>>]
    /\ sample_time' = [sample_time EXCEPT ![r] = <<ctx[r].num_frames, framerate>>]
    /\ pc' = [pc EXCEPT ![r] = IF ctx[r].num_frames = 0 THEN "respond" ELSE "finish"]
    /\ marks' = [marks EXCEPT ![r].eof = now]
    /\ UNCHANGED <<pos, readLog>>

\* The loops' exit (lines 79-80, 83 and 90-91, 94): the source is exhausted.
EndOfSource(r, framerate) ==
    /\ frames' = [frames EXCEPT ![r] = <<>>]
    /\ sample_time' = [sample_time EXCEPT ![r] = <<ctx[r].num_frames, framerate>>]
    /\ pc' = [pc EXCEPT ![r] = "finish"]
    /\ marks' = [marks EXCEPT ![r].eof = now]
    /\ UNCHANGED <<pos, readLog>>

\* GotChunk as it would be if the loop kept its first chunk in `frames`.
GotChunkStale(r, n) ==
    /\ frames' = [frames EXCEPT ![r] = IF readLog[r] = <<>> THEN <<pos[r], n>>
                                       ELSE readLog[r][1]]
    /\ pos' = [pos EXCEPT ![r] = @ + n]
    /\ readLog' = [readLog EXCEPT ![r] = Append(@, <<pos[r], n>>)]
    /\ pc' = [pc EXCEPT ![r] = "feed"]
    /\ UNCHANGED <<sample_time, marks>>

\* The loops' body up to the feed: a non-empty chunk of n bytes was read.
GotChunk(r, n) ==
    /\ frames' = [frames EXCEPT ![r] = <<pos[r], n>>]
    /\ pos' = [pos EXCEPT ![r] = @ + n]
    /\ readLog' = [readLog EXCEPT ![r] = Append(@, <<pos[r], n>>)]
    /\ pc' = [pc EXCEPT ![r] = "feed"]
    /\ UNCHANGED <<sample_time, marks>>

\* wav.readframes(n): the bytes of up to n frames, fewer at the end of data.
WavReadBytes(b, p, n) ==
    LET framesize == b.nchannels * b.sampwidth
        left == (DataBytes(b) - p) \div framesize
    IN  Min(n, left) * framesize

\* handle_stt_wav, lines 78-80.
WavRead(r) ==
    /\ pc[r] = "wav_read"
    /\ LET n == WavReadBytes(body[r], pos[r], ReadFrames)
       IN  IF n = 0 THEN EndOfSource(r, body[r].framerate) ELSE GotChunk(r, n)
    /\ UNCHANGED <<now, query, body, start_time, ctx, fin_start, total_time,
                   outcome, engCalls, inflight, fedLog, feedTimes>>

\* request.content.read(n): at end of stream the empty string, otherwise
\* between 1 and n of the bytes left, as many as have arrived.
RawReadSizes(r, n) ==
    LET left == DataBytes(body[r]) - pos[r]
    IN  IF left = 0 THEN {0}
        ELSE {Min(n, left)} \cup
             {k \in 1 .. MaxShort :
                 k <= Min(n, left) /\ Len(readLog[r]) < MaxShortReads}

\* handle_stt_raw, lines 89-91.
RawRead(r) ==
    /\ pc[r] = "raw_read"
    /\ \E n \in RawReadSizes(r, RawSampWidth * ReadFrames) :
          IF n = 0 THEN EndOfSource(r, RawFrameRate) ELSE GotChunk(r, n)
    /\ UNCHANGED <<now, query, body, start_time, ctx, fin_start, total_time,
                   outcome, engCalls, inflight, fedLog, feedTimes>>

\* FeedCall as it would be if the feed were started without being awaited:
\* the loop goes on to its next read while the engine still works.
FeedCallNotAwaited(r) ==
    /\ pc[r] = "feed"
    /\ FromBufferOK(frames[r][2])
    /\ feedTimes' = [feedTimes EXCEPT ![r] = Append(@, now)]
    /\ ctx' = [ctx EXCEPT ![r].last_sample_time = now,
                          ![r].num_frames = @ + SampleCount(frames[r][2])]
    /\ engCalls' = [engCalls EXCEPT ![r] = Append(@, "feedAudioContent")]
    /\ inflight' = [inflight EXCEPT ![r] = @ + 1]
    /\ fedLog' = [fedLog EXCEPT ![r] = Append(@, frames[r])]
    /\ pc' = [pc EXCEPT ![r] = IF Fmt(r) = "wav" THEN "wav_read" ELSE "raw_read"]
    /\ UNCHANGED <<now, query, body, pos, start_time, frames, fin_start,
                   sample_time, total_time, outcome, readLog, marks>>

\* FeedCall as it would be if the feed left _last_sample_time alone.
FeedCallNoStamp(r) ==
    /\ pc[r] = "feed"
    /\ feedTimes' = [feedTimes EXCEPT ![r] = Append(@, now)]
    /\ IF FromBufferOK(frames[r][2])
         THEN /\ ctx' = [ctx EXCEPT ![r].num_frames = @ + SampleCount(frames[r][2])]
              /\ engCalls' = [engCalls EXCEPT ![r] = Append(@, "feedAudioContent")]
              /\ inflight' = [inflight EXCEPT ![r] = @ + 1]
              /\ fedLog' = [fedLog EXCEPT ![r] = Append(@, frames[r])]
              /\ pc' = [pc EXCEPT ![r] = "feed_wait"]
              /\ UNCHANGED outcome
         ELSE /\ Raise(r, "ValueError")
              /\ UNCHANGED <<ctx, engCalls, inflight, fedLog>>
    /\ UNCHANGED <<now, query, body, pos, start_time, frames, fin_start,
                   sample_time, total_time, readLog, marks>>

\* FeedCall as it would be if num_frames were assigned the chunk's count
\* instead of being increased by it.
FeedCallAssignsCount(r) ==
    /\ pc[r] = "feed"
    /\ feedTimes' = [feedTimes EXCEPT ![r] = Append(@, now)]
    /\ IF FromBufferOK(frames[r][2])
         THEN /\ ctx' = [ctx EXCEPT ![r].last_sample_time = now,
                                    ![r].num_frames = SampleCount(frames[r][2])]
              /\ engCalls' = [engCalls EXCEPT ![r] = Append(@, "feedAudioContent")]
              /\ inflight' = [inflight EXCEPT ![r] = @ + 1]
              /\ fedLog' = [fedLog EXCEPT ![r] = Append(@, frames[r])]
              /\ pc' = [pc EXCEPT ![r] = "feed_wait"]
              /\ UNCHANGED outcome
         ELSE /\ ctx' = [ctx EXCEPT ![r].last_sample_time = now]
              /\ Raise(r, "ValueError")
              /\ UNCHANGED <<engCalls, inflight, fedLog>>
    /\ UNCHANGED <<now, query, body, pos, start_time, frames, fin_start,
                   sample_time, total_time, readLog, marks>>

\* feedRawAudioContent, lines 58-63 up to the await.  The timestamp is
\* taken first; frombuffer raises ValueError on a buffer that is not a whole
\* number of int16 samples.
FeedCall(r) ==
    /\ pc[r] = "feed"
    /\ feedTimes' = [feedTimes EXCEPT ![r] = Append(@, now)]
    /\ IF FromBufferOK(frames[r][2])
         THEN /\ ctx' = [ctx EXCEPT ![r].last_sample_time = now,
                                    ![r].num_frames = @ + SampleCount(frames[r][2])]
              /\ engCalls' = [engCalls EXCEPT ![r] = Append(@, "feedAudioContent")]
              /\ inflight' = [inflight EXCEPT ![r] = @ + 1]
              /\ fedLog' = [fedLog EXCEPT ![r] = Append(@, frames[r])]
              /\ pc' = [pc EXCEPT ![r] = "feed_wait"]
              /\ UNCHANGED outcome
         ELSE /\ ctx' = [ctx EXCEPT ![r].last_sample_time = now]
              /\ Raise(r, "ValueError")
              /\ UNCHANGED <<engCalls, inflight, fedLog>>
    /\ UNCHANGED <<now, query, body, pos, start_time, frames, fin_start,
                   sample_time, total_time, readLog, marks>>

\* The loop the handler is in.
LoopPc(r) == IF Fmt(r) = "wav" THEN "wav_read" ELSE "raw_read"

\* FeedReturn as it would be if the reference timestamp were taken when the
\* feed returns.
FeedReturnStamps(r) ==
    /\ pc[r] = "feed_wait"
    /\ inflight' = [inflight EXCEPT ![r] = @ - 1]
    /\ ctx' = [ctx EXCEPT ![r] =
                 [UpdateExecTime(@, @.last_sample_time, now)
                     EXCEPT !.last_sample_time = now]]
    /\ pc' = [pc EXCEPT ![r] = IF Fmt(r) = "wav" THEN "wav_read" ELSE "raw_read"]
    /\ UNCHANGED <<now, query, body, pos, start_time, frames, fin_start,
                   sample_time, total_time, outcome, engCalls, readLog,
                   fedLog, feedTimes, marks>>

\* FeedReturn as it would be if each feed also took the latency.
FeedReturnSetsLatency(r) ==
    /\ pc[r] = "feed_wait"
    /\ inflight' = [inflight EXCEPT ![r] = @ - 1]
    /\ ctx' = [ctx EXCEPT ![r] =
                 [UpdateExecTime(@, @.last_sample_time, now)
                     EXCEPT !.latency = now - ctx[r].last_sample_time]]
    /\ pc' = [pc EXCEPT ![r] = IF Fmt(r) = "wav" THEN "wav_read" ELSE "raw_read"]
    /\ UNCHANGED <<now, query, body, pos, start_time, frames, fin_start,
                   sample_time, total_time, outcome, engCalls, readLog,
                   fedLog, feedTimes, marks>>

\* feedRawAudioContent, lines 63-65: the engine took the chunk.
FeedReturn(r) ==
    /\ pc[r] = "feed_wait"
    /\ inflight' = [inflight EXCEPT ![r] = @ - 1]
    /\ ctx' = [ctx EXCEPT ![r] = UpdateExecTime(@, @.last_sample_time, now)]
    /\ pc' = [pc EXCEPT ![r] = LoopPc(r)]
    /\ UNCHANGED <<now, query, body, pos, start_time, frames, fin_start,
                   sample_time, total_time, outcome, engCalls, readLog,
                   fedLog, feedTimes, marks>>

\* FeedFail as it would be if the engine's error were caught and noted and
\* the loop went on.
FeedFailSwallowed(r) ==
    /\ pc[r] = "feed_wait"
    /\ inflight' = [inflight EXCEPT ![r] = @ - 1]
    /\ pc' = [pc EXCEPT ![r] = IF Fmt(r) = "wav" THEN "wav_read" ELSE "raw_read"]
    /\ outcome' = [outcome EXCEPT ![r] = "EngineError"]
    /\ UNCHANGED <<now, query, body, pos, start_time, ctx, frames, fin_start,
                   sample_time, total_time, engCalls, readLog, fedLog,
                   feedTimes, marks>>

\* feedRawAudioContent, line 63: the engine raised.
FeedFail(r) ==
    /\ pc[r] = "feed_wait"
    /\ inflight' = [inflight EXCEPT ![r] = @ - 1]
    /\ Raise(r, "EngineError")
    /\ UNCHANGED <<now, query, body, pos, start_time, ctx, frames, fin_start,
                   sample_time, total_time, engCalls, readLog, fedLog,
                   feedTimes, marks>>

\* handle_stt line 112, finishStream lines 68-69 up to the await.
FinishCall(r) ==
    /\ pc[r] = "finish"
    /\ fin_start' = [fin_start EXCEPT ![r] = now]
    /\ engCalls' = [engCalls EXCEPT ![r] = Append(@, "finishStream")]
    /\ inflight' = [inflight EXCEPT ![r] = @ + 1]
    /\ pc' = [pc EXCEPT ![r] = "finish_wait"]
    /\ UNCHANGED <<now, query, body, pos, start_time, ctx, frames,
                   sample_time, total_time, outcome, readLog, fedLog,
                   feedTimes, marks>>

\* finishStream, lines 69-70: the engine returned the transcript and freed
\* the stream.
FinishReturn(r) ==
    /\ pc[r] = "finish_wait"
    /\ inflight' = [inflight EXCEPT ![r] = @ - 1]
    /\ ctx' = [ctx EXCEPT ![r] =
                 UpdateExecTime([@ EXCEPT !.stream_ctx = "finished"],
                                fin_start[r], now)]
    /\ pc' = [pc EXCEPT ![r] = "latency"]
    /\ UNCHANGED <<now, query, body, pos, start_time, frames, fin_start,
                   sample_time, total_time, outcome, engCalls, readLog,
                   fedLog, feedTimes>>
    /\ marks' = [marks EXCEPT ![r].fin_ret = now]

\* finishStream, line 69: the engine raised.
FinishFail(r) ==
    /\ pc[r] = "finish_wait"
    /\ inflight' = [inflight EXCEPT ![r] = @ - 1]
    /\ ctx' = [ctx EXCEPT ![r].stream_ctx = "finished"]
    /\ Raise(r, "EngineError")
    /\ UNCHANGED <<now, query, body, pos, start_time, frames, fin_start,
                   sample_time, total_time, engCalls, readLog, fedLog,
                   feedTimes, marks>>

\* finishStream, lines 71-72: a second clock reading gives the latency.
SetLatency(r) ==
    /\ pc[r] = "latency"
    /\ ctx' = [ctx EXCEPT ![r].latency = now - ctx[r].last_sample_time]
    /\ pc' = [pc EXCEPT ![r] = "respond"]
    /\ UNCHANGED <<now, query, body, pos, start_time, frames, fin_start,
                   sample_time, total_time, outcome, engCalls, inflight,
                   readLog, fedLog, feedTimes, marks>>

\* handle_stt, lines 113-115: the log line and the response.
Respond(r) ==
    /\ pc[r] = "respond"
    /\ total_time' = [total_time EXCEPT ![r] = now - start_time[r]]
    /\ pc' = [pc EXCEPT ![r] = "done"]
    /\ outcome' = [outcome EXCEPT ![r] = "ok"]
    /\ UNCHANGED <<now, query, body, pos, start_time, ctx, frames, fin_start,
                   sample_time, engCalls, inflight, readLog, fedLog,
                   feedTimes, marks>>

\* The bodies a client may send with a query.
Bodies(q) ==
    IF QueryGet(q) = "wav" THEN WavBodies
    ELSE IF QueryGet(q) = "16K_PCM16" THEN {RawBody(n) : n \in Sizes}
    ELSE {NoBody}

Inputs == UNION {{<<q, b>> : b \in Bodies(q)} : q \in QueryFormats}

\* A sample of the inputs, one or two of each kind: every format, a header
\* that parses and one that does not, bodies of no, one and two chunks.
FewSizes == {0, ReadFrames + MaxExtra}

FewInputs ==
    {in \in Inputs :
        /\ in[1] # "absent"
        /\ in[2].nframes \in FewSizes
        /\ in[2].valid => in[2].nchannels = 1 /\ in[2].sampwidth = 2
                          /\ in[2].framerate = 16000}

Handler(r, menu) ==
    \/ \E in \in menu : Start(r, in[1], in[2])
    \/ CreateStreamCall(r)
    \/ CreateStreamReturn(r)
    \/ CreateStreamFail(r)
    \/ Dispatch(r)
    \/ ReadFail(r)
    \/ WavOpen(r)
    \/ WavRead(r)
    \/ RawRead(r)
    \/ FeedCall(r)
    \/ FeedReturn(r)
    \/ FeedFail(r)
    \/ FinishCall(r)
    \/ FinishReturn(r)
    \/ FinishFail(r)
    \/ SetLatency(r)
    \/ Respond(r)

\* One request with any of the inputs, the clock running.
NextSolo == Tick \/ Handler(1, Inputs)

SpecSolo == Init /\ [][NextSolo]_vars

\* Two requests racing, the clock running: one chunk of raw audio each.
TimedInputs ==
    {<<"16K_PCM16", RawBody(Int16Bytes)>>,
     <<"wav", [valid |-> TRUE, nchannels |-> 1, sampwidth |-> 2,
               framerate |-> 16000, nframes |-> 1]>>}

NextPair == Tick \/ Handler(1, TimedInputs) \/ Handler(2, TimedInputs)

SpecPair == Init /\ [][NextPair]_vars

\* The scenario of a two-second recording: a WAV of 32000 frames, mono,
\* 16-bit, 16000 Hz, as the one request.
ScenarioWav == [valid |-> TRUE, nchannels |-> 1, sampwidth |-> 2,
                framerate |-> 16000, nframes |-> 32000]

NextScenario ==
    \/ Start(1, "wav", ScenarioWav)
    \/ CreateStreamCall(1)
    \/ CreateStreamReturn(1)
    \/ CreateStreamFail(1)
    \/ Dispatch(1)
    \/ ReadFail(1)
    \/ WavOpen(1)
    \/ WavRead(1)
    \/ FeedCall(1)
    \/ FeedReturn(1)
    \/ FeedFail(1)
    \/ FinishCall(1)
    \/ FinishReturn(1)
    \/ FinishFail(1)
    \/ SetLatency(1)
    \/ Respond(1)

SpecScenario == Init /\ [][NextScenario]_vars

\* Requests whose format is supported and whose body is finite and, for WAV,
\* has a header that parses: raw bodies of no, two and three bytes, WAV
\* bodies of no and one frame.
LiveInputs ==
    {<<"16K_PCM16", RawBody(n)>> : n \in {0, Int16Bytes, Int16Bytes + 1}}
    \cup
    {<<q, [valid |-> TRUE, nchannels |-> 1, sampwidth |-> 2,
           framerate |-> 16000, nframes |-> n]>> :
        q \in {"absent", "wav"}, n \in {0, 1}}

\* A step of request r when every read and every engine call returns.
LiveStep(r) ==
    \/ \E in \in LiveInputs : Start(r, in[1], in[2])
    \/ CreateStreamCall(r)
    \/ CreateStreamReturn(r)
    \/ Dispatch(r)
    \/ WavOpen(r)
    \/ WavRead(r)
    \/ RawRead(r)
    \/ FeedCall(r)
    \/ FeedReturn(r)
    \/ FinishCall(r)
    \/ FinishReturn(r)
    \/ SetLatency(r)
    \/ Respond(r)

NextLive == \E r \in Req : LiveStep(r)

\* The event loop resumes every task that can run, and the worker threads
\* return: each request's next step is eventually taken.
SpecLive == Init /\ [][NextLive]_vars /\ \A r \in Req : WF_vars(LiveStep(r))

\* Up to NumReq requests, interleaved at every await.
Next == \E r \in Req : Handler(r, FewInputs)

Spec == Init /\ [][Next]_vars

\* ------------------------------------------------------------- properties
Started(r) == pc[r] # "idle"
Ended(r) == pc[r] = "done"
Supported(r) == Fmt(r) \in {"wav", "16K_PCM16"}

\* The request ended on a failure of its surroundings: the engine raised or
\* the body could not be read.
EnvFailure(r) == outcome[r] \in {"EngineError", "IOError"}

\* The number of calls named c among the engine calls made for r.
Count(r, c) == Cardinality({i \in 1 .. Len(engCalls[r]) : engCalls[r][i] = c})

\* C1: a request whose format is neither wav nor 16K_PCM16 makes no engine
\* call at any point and ends as a bad request.
C1_UnsupportedFailsFast ==
    \A r \in Req :
        Started(r) /\ ~Supported(r) =>
            /\ engCalls[r] = <<>>
            /\ Ended(r) /\ ~EnvFailure(r) => Status(outcome[r]) = 400

\* C2: a wav request whose header does not parse ends as a bad request (a
\* client error, not a server fault) with no engine call made for it.
C2_MalformedWavBadRequest ==
    \A r \in Req :
        Ended(r) /\ ~EnvFailure(r) /\ Fmt(r) = "wav" /\ ~HeaderParses(body[r]) =>
            /\ Status(outcome[r]) = 400
            /\ engCalls[r] = <<>>

\* C3: no request ends while the engine stream it opened is still open:
\* every opened handle has been released by the time the request is over.
C3_HandleReleasedOnExit ==
    \A r \in Req : Ended(r) => ctx[r].stream_ctx # "open"

\* C4: the engine calls of one session are createStream once, then feeds,
\* then finishStream at most once and last; never two of them in flight;
\* feeds and finishStream only on a stream that createStream has returned;
\* nothing after finishStream.  Checked with the requests interleaved.
C4_SessionCallOrder ==
    \A r \in Req :
        LET c == engCalls[r] IN
        /\ inflight[r] \in {0, 1}
        /\ \A i \in 1 .. Len(c) :
              /\ c[i] = "createStream" <=> i = 1
              /\ c[i] = "finishStream" => i = Len(c)
        /\ Len(c) >= 2 => ctx[r].stream_ctx # "unset"
        /\ Len(c) >= 2 /\ inflight[r] = 1 => ctx[r].stream_ctx = "open"
        /\ ctx[r].stream_ctx = "finished" =>
              inflight[r] = 0 /\ Len(c) >= 2 /\ c[Len(c)] = "finishStream"

\* Two sessions under way at once: one has gone open, feed, feed, finalize
\* while the other has an engine call in flight.
C4_Witness ==
    /\ engCalls[1] = <<"createStream", "feedAudioContent", "feedAudioContent",
                       "finishStream">>
    /\ ctx[1].stream_ctx = "finished"
    /\ inflight[2] = 1
    /\ Len(engCalls[2]) = 2

IsPrefix(s, t) == Len(s) <= Len(t) /\ \A i \in 1 .. Len(s) : s[i] = t[i]

\* C5: in both loops the chunks passed to the engine are the non-empty
\* chunks read from the source, in the order read, none skipped, repeated
\* or moved: at most the chunk just read is still to be fed, and once the
\* loop is over every chunk read has been fed; never two feeds in flight.
C5_FedInReadOrder ==
    \A r \in Req :
        /\ IsPrefix(fedLog[r], readLog[r])
        /\ Len(readLog[r]) <= Len(fedLog[r]) + 1
        /\ Len(readLog[r]) = Len(fedLog[r]) + 1 => pc[r] \in {"feed", "done"}
        /\ pc[r] \in {"finish", "finish_wait", "latency", "respond"}
              => fedLog[r] = readLog[r]
        /\ outcome[r] = "ok" => fedLog[r] = readLog[r]
        /\ inflight[r] <= 1

\* A request answered after two distinct chunks went to the engine.
C5_Witness ==
    \E r \in Req :
        /\ outcome[r] = "ok"
        /\ Len(fedLog[r]) = 2
        /\ fedLog[r][1] # fedLog[r][2]

\* C6: a raw request of whole samples that ends without a failure of its
\* surroundings is answered, with num_frames half the bytes read, however
\* the reads split the body (odd pieces included).
C6_RawFrameCount ==
    \A r \in Req :
        /\ Fmt(r) = "16K_PCM16" /\ Ended(r) /\ ~EnvFailure(r)
        /\ DataBytes(body[r]) % RawSampWidth = 0
        => /\ outcome[r] = "ok"
           /\ ctx[r].num_frames = pos[r] \div RawSampWidth

\* C7: when handle_stt_wav is over, the sample time is the container's
\* frame count over its frame rate, whatever channels and width it declares.
C7_WavFrameCount ==
    \A r \in Req :
        Fmt(r) = "wav" /\ sample_time[r] # <<>> =>
            sample_time[r] = <<body[r].nframes, body[r].framerate>>

\* The source of r ran out before it gave a single chunk.
EmptySource(r) == sample_time[r] # <<>> /\ readLog[r] = <<>>

\* C8: a supported request whose source yields no chunk makes no feed call,
\* calls finishStream exactly once on the stream it opened, and is answered
\* (unless that call itself raises) with num_frames = 0.
C8_EmptyStreamFinalized ==
    \A r \in Req :
        Supported(r) /\ EmptySource(r) =>
            /\ Count(r, "feedAudioContent") = 0
            /\ ctx[r].num_frames = 0
            /\ sample_time[r][1] = 0
            /\ pc[r] # "finish" => Count(r, "finishStream") = 1
            /\ pc[r] \in {"finish", "finish_wait"} => ctx[r].stream_ctx = "open"
            /\ Ended(r) => outcome[r] \in {"ok", "EngineError"}
            /\ Ended(r) /\ ctx[r].stream_ctx = "finished"
                  /\ outcome[r] # "EngineError" => outcome[r] = "ok"

\* An empty raw body and an empty WAV body answered.
C8_Witness ==
    \E r \in Req :
        /\ EmptySource(r)
        /\ outcome[r] = "ok"
        /\ engCalls[r] = <<"createStream", "finishStream">>

\* C9: from the moment start_time is taken, exec_time is at least 0 and at
\* most the time elapsed since start_time; the total the log line reports
\* is no less than exec_time.
C9_ExecTimeWithinWallClock ==
    \A r \in Req :
        Started(r) =>
            /\ ctx[r].exec_time >= 0
            /\ ctx[r].exec_time <= now - start_time[r]
            /\ outcome[r] = "ok" => ctx[r].exec_time <= total_time[r]

\* Both requests have spent time in the engine, one of them answered with
\* all of its time spent there.
C9_Witness ==
    /\ outcome[1] = "ok"
    /\ ctx[1].exec_time = total_time[1]
    /\ ctx[1].exec_time >= 2
    /\ ctx[2].exec_time >= 1
    /\ start_time[2] >= 1

\* C10: _last_sample_time never decreases, and the latency finishStream
\* sets, after the engine's finishStream has returned, is the clock then
\* minus the timestamp the last feed call took, not an earlier one.
C10_LatencyFromLastFeed ==
    [][\A r \in Req :
          /\ ctx'[r].last_sample_time >= ctx[r].last_sample_time
          /\ pc[r] = "latency" /\ pc'[r] = "respond" /\ feedTimes[r] # <<>>
                => /\ ctx'[r].latency = now - feedTimes[r][Len(feedTimes[r])]
                   /\ now >= fin_start[r]
                   /\ ctx[r].stream_ctx = "finished"]_vars

\* A latency taken from the second of two feeds that started at different
\* times.
C10_Witness ==
    \E r \in Req :
        /\ pc[r] = "respond"
        /\ Len(feedTimes[r]) = 2
        /\ feedTimes[r][1] < feedTimes[r][2]
        /\ ctx[r].latency = 1
        /\ now = feedTimes[r][2] + 1

\* What belongs to session r: its context (num_frames, exec_time, latency,
\* _last_sample_time, the stream) and the engine calls on its stream.
Session(r) == <<ctx[r], engCalls[r], inflight[r], fedLog[r], fin_start[r]>>

\* C11: with the requests interleaved at every await, a stream never has
\* two engine calls in flight, and a step changes the context and the engine
\* calls of no session but the one whose handler took the step.
C11_SessionsIsolated ==
    [][\A r \in Req :
          /\ inflight'[r] \in {0, 1}
          /\ Session(r)' # Session(r) =>
                /\ pc'[r] # pc[r]
                /\ \A s \in Req \ {r} : Session(s)' = Session(s) /\ pc'[s] = pc[s]]_vars

\* Both sessions have an engine call in flight at once, one of them a feed
\* after time was spent in createStream.
C11_Witness ==
    /\ inflight[1] = 1 /\ inflight[2] = 1
    /\ ctx[1].num_frames > 0 /\ ctx[1].exec_time > 0
    /\ ctx[2].stream_ctx = "open" /\ ctx[2].last_sample_time > 0

\* C12: the step in which an engine call raises ends the request with an
\* error outcome, and from then on the session makes no engine call (the
\* call is not retried, the stream not used again), reads no chunk and
\* keeps its outcome.
C12_EngineErrorIsFinal ==
    [][\A r \in Req :
          /\ outcome'[r] = "EngineError" =>
                /\ pc'[r] = "done"
                /\ inflight'[r] = 0
                /\ Status(outcome'[r]) = 500
          /\ outcome[r] = "EngineError" =>
                /\ engCalls'[r] = engCalls[r]
                /\ readLog'[r] = readLog[r]
                /\ pos'[r] = pos[r]
                /\ outcome'[r] = outcome[r]]_vars

\* A feed raised while the body still had data, and the clock moved on
\* afterwards with the request over.
C12_Witness ==
    \E r \in Req :
        /\ outcome[r] = "EngineError"
        /\ engCalls[r][Len(engCalls[r])] = "feedAudioContent"
        /\ pos[r] < DataBytes(body[r])
        /\ now > ctx[r].last_sample_time

\* The feed loop of r is over: the source ran out.
LoopOver(r) == sample_time[r] # <<>>

\* The chunks fed for r that hold n bytes.
FedOfSize(r, n) == {i \in 1 .. Len(fedLog[r]) : fedLog[r][i][2] = n}

\* C13 as stated: the 32000-frame recording is fed in four chunks of 512
\* frames plus one partial chunk, and num_frames is 32000 at the end.
C13_FourChunksAndOne ==
    LoopOver(1) =>
        /\ Len(fedLog[1]) = 5
        /\ Cardinality(FedOfSize(1, 512 * 2)) = 4
        /\ ctx[1].num_frames = 32000

\* C13 amended: the recording is fed in 62 chunks of 512 frames plus one
\* partial chunk of 256 frames, and num_frames is 32000 at the end, the
\* sample time 32000 / 16000.
C13_SixtyTwoChunksAndOne ==
    LoopOver(1) =>
        /\ Len(fedLog[1]) = 63
        /\ FedOfSize(1, 512 * 2) = 1 .. 62
        /\ fedLog[1][63] = <<62 * 512 * 2, 256 * 2>>
        /\ ctx[1].num_frames = 32000
        /\ sample_time[1] = <<32000, 16000>>

\* The recording was fed to the end and the request answered.
C13_Witness ==
    /\ outcome[1] = "ok"
    /\ Len(fedLog[1]) = 63
    /\ pos[1] = 64000

\* The feed of r that the engine has not returned from yet (0 or 1).
FeedInFlight(r) ==
    IF inflight[r] > 0 /\ engCalls[r][Len(engCalls[r])] = "feedAudioContent"
    THEN inflight[r] ELSE 0

\* Chunks read from r's source that the engine has not fully taken.
ChunksHeld(r) == Len(readLog[r]) - Len(fedLog[r]) + FeedInFlight(r)

\* C14: a session never holds more than one chunk read and not yet fully
\* fed, and whenever it is reading, every chunk read before has been fed and
\* the engine has returned from the feed.
C14_OneChunkAtATime ==
    \A r \in Req :
        /\ pc[r] # "done" => ChunksHeld(r) <= 1
        /\ pc[r] \in {"wav_read", "raw_read"} =>
              ChunksHeld(r) = 0 /\ inflight[r] = 0 /\ fedLog[r] = readLog[r]

\* The second chunk of a body is with the engine; the first was fed before
\* it was read.
C14_Witness ==
    \E r \in Req :
        /\ pc[r] = "feed_wait"
        /\ Len(readLog[r]) = 2
        /\ ChunksHeld(r) = 1
        /\ fedLog[r] = readLog[r]

\* C15, the part on sizes and on the end of the loop: every chunk the raw
\* loop passes on has 1 .. 512 * sampwidth bytes, and once a read has
\* returned nothing the loop neither reads nor feeds again.
C15_ChunkSizesAndLoopEnd ==
    \A r \in Req :
        Fmt(r) = "16K_PCM16" =>
            /\ \A i \in 1 .. Len(readLog[r]) :
                  readLog[r][i][2] \in 1 .. ReadFrames * RawSampWidth
            /\ LoopOver(r) => pc[r] \notin {"raw_read", "feed", "feed_wait"}
            /\ LoopOver(r) => fedLog[r] = readLog[r]

\* C15: the above, and a raw stream cut short at any byte gives a short
\* last chunk or no chunk and no error: unless the engine raises or the
\* read itself fails, the request is answered.
C15_RawTruncationNoError ==
    /\ C15_ChunkSizesAndLoopEnd
    /\ \A r \in Req :
          Fmt(r) = "16K_PCM16" /\ Ended(r) /\ ~EnvFailure(r) => outcome[r] = "ok"

\* The 16-bit samples in the chunks of a log: two bytes each.
RECURSIVE SamplesIn(_)
SamplesIn(log) ==
    IF log = <<>> THEN 0
    ELSE SamplesIn(SubSeq(log, 1, Len(log) - 1)) + log[Len(log)][2] \div 2

\* C16: num_frames and exec_time never decrease; num_frames starts at 0, is
\* changed by a feed only, and is always the number of 16-bit samples in
\* the chunks passed to the engine so far; createStream and finishStream
\* leave it alone.
C16_CountersMonotone ==
    [][\A r \in Req :
          /\ ctx'[r].num_frames >= ctx[r].num_frames
          /\ ctx'[r].exec_time >= ctx[r].exec_time
          /\ ctx'[r].num_frames = SamplesIn(fedLog'[r])
          /\ ctx'[r].num_frames # ctx[r].num_frames =>
                /\ pc[r] = "feed"
                /\ Len(engCalls'[r]) = Len(engCalls[r]) + 1
                /\ engCalls'[r][Len(engCalls'[r])] = "feedAudioContent"
          /\ pc[r] = "idle" => ctx'[r].num_frames = 0 /\ ctx'[r].exec_time = 0]_vars

\* Two feeds have added up and time has been spent in the engine.
C16_Witness ==
    \E r \in Req :
        /\ Len(fedLog[r]) = 2
        /\ ctx[r].num_frames = SamplesIn(fedLog[r])
        /\ ctx[r].num_frames > fedLog[r][2][2] \div 2
        /\ ctx[r].exec_time >= 2
        /\ outcome[r] = "ok"

\* The clock reading with which the engine call r is waiting for started.
CallStart(r) ==
    LET c == engCalls[r][Len(engCalls[r])] IN
    IF c = "finishStream" THEN fin_start[r]
    ELSE IF c = "feedAudioContent" THEN feedTimes[r][Len(feedTimes[r])]
    ELSE ctx[r].last_sample_time

\* A step in which an engine call of r returns (without raising).
CallReturns(r) == inflight'[r] = inflight[r] - 1 /\ outcome'[r] = outcome[r]

\* C17: latency is 0 until finishStream's engine call has returned and is
\* set in one step only, the one finishStream takes after that return, never
\* by createStream or a feed; exec_time changes only when an engine call
\* returns, once for each, by the clock then minus the call's start.
C17_LatencyOnceExecPerCall ==
    [][\A r \in Req :
          /\ ctx'[r].stream_ctx # "finished" => ctx'[r].latency = 0
          /\ ctx'[r].latency # ctx[r].latency =>
                pc[r] = "latency" /\ pc'[r] = "respond"
          /\ pc[r] \in {"respond", "done"} => ctx'[r].latency = ctx[r].latency
          /\ ctx'[r].exec_time # ctx[r].exec_time => CallReturns(r)
          /\ CallReturns(r) =>
                ctx'[r].exec_time = ctx[r].exec_time + (now - CallStart(r))]_vars

\* A request answered with a latency, after the three kinds of call each
\* took time.
C17_Witness ==
    \E r \in Req :
        /\ outcome[r] = "ok"
        /\ ctx[r].latency = 1
        /\ ctx[r].exec_time = 2
        /\ Len(engCalls[r]) >= 3

\* The engine's finishStream raised: an engine error after the read loop
\* was left.
FinishRaised(r) == outcome[r] = "EngineError" /\ LoopOver(r)

\* C18 as stated: a request that ended had finishStream invoked exactly once
\* if and only if it ended with a success response.
C18_FinishIffSuccess ==
    \A r \in Req :
        Ended(r) => (Count(r, "finishStream") = 1 <=> outcome[r] = "ok")

\* C18, amended: finishStream is invoked at most once, and exactly once if
\* and only if the request ends with a success response or with the error
\* finishStream's own engine call raised; a request that ends in any other
\* error (unsupported format, WAV parse failure, read error, engine error in
\* open or feed) never invoked it; a success response is sent only after
\* finishStream returned and the source was read to its end.
C18_FinishIffSuccessOrOwnError ==
    \A r \in Req :
        /\ Count(r, "finishStream") <= 1
        /\ Ended(r) =>
              (Count(r, "finishStream") = 1 <=>
                  outcome[r] = "ok" \/ FinishRaised(r))
        /\ Ended(r) /\ outcome[r] # "ok" /\ ~FinishRaised(r) =>
              /\ Count(r, "finishStream") = 0
              /\ ctx[r].stream_ctx # "finished"
        /\ outcome[r] = "ok" =>
              /\ ctx[r].stream_ctx = "finished"
              /\ inflight[r] = 0
              /\ engCalls[r][Len(engCalls[r])] = "finishStream"
              /\ LoopOver(r)
              /\ Len(fedLog[r]) = Len(readLog[r])
              /\ pos[r] = DataBytes(body[r])

\* A request answered with success after two chunks, finalized once.
C18_Witness ==
    \E r \in Req :
        /\ outcome[r] = "ok"
        /\ Count(r, "finishStream") = 1
        /\ Count(r, "feedAudioContent") = 2

\* The header of a WAV request parses (nothing is asked of a raw body).
WellFormed(r) == Fmt(r) = "wav" => HeaderParses(body[r])

\* C19: a request with a supported format and a finite body, whose reads and
\* engine calls all return, is eventually finalized and answered, also with
\* other requests running.
C19_EventuallyAnswered ==
    \A r \in Req :
        (Started(r) /\ Supported(r) /\ WellFormed(r))
            ~> (outcome[r] = "ok" /\ ctx[r].stream_ctx = "finished")

\* C19, its last part: no more feed calls than reads that returned data.
C19_FeedsBoundedByReads ==
    \A r \in Req : Count(r, "feedAudioContent") <= Len(readLog[r])

\* finishStream has set the latency of r.
LatencySet(r) == pc[r] = "respond" \/ outcome[r] = "ok"

\* How long the engine's finishStream call of r took.
FinishDuration(r) == marks[r].fin_ret - fin_start[r]

\* C20: once set, latency is at least the duration of the engine's
\* finishStream call plus, if a chunk was fed, the time from the start of
\* the last feed to the return of the end-of-stream read after it; with no
\* chunk fed it is measured from the start of createStream and is at least
\* exec_time.
C20_LatencyLowerBound ==
    \A r \in Req :
        LatencySet(r) =>
            /\ ctx[r].latency >= FinishDuration(r)
            /\ feedTimes[r] # <<>> =>
                  /\ ctx[r].last_sample_time = feedTimes[r][Len(feedTimes[r])]
                  /\ marks[r].eof >= feedTimes[r][Len(feedTimes[r])]
                  /\ ctx[r].latency >=
                        FinishDuration(r)
                        + (marks[r].eof - feedTimes[r][Len(feedTimes[r])])
            /\ feedTimes[r] = <<>> =>
                  /\ ctx[r].latency >= ctx[r].exec_time
                  /\ ctx[r].latency >= marks[r].fin_ret - ctx[r].last_sample_time

\* A finalized request whose last feed with the read after it took one tick
\* and whose finishStream took another.
C20_Witness ==
    \E r \in Req :
        /\ LatencySet(r)
        /\ feedTimes[r] # <<>>
        /\ FinishDuration(r) = 1
        /\ marks[r].eof - feedTimes[r][Len(feedTimes[r])] = 1
        /\ ctx[r].latency = 2

====
